---- MODULE Spec2Model ----
(***************************************************************************)
(* sparsembed/losses/flops.py: the FlopsScheduler weight ramp and the      *)
(* Flops regularisation loss.                                              *)
(*                                                                         *)
(* Python floats are modelled as exact rationals <<numerator, denominator>>*)
(* and every value stored or returned is the pair in lowest terms, so that *)
(* equality of two values is equality of the pairs.  Every operation the   *)
(* code performs (true division, power 2, product, mean, sum, abs, clip)   *)
(* is carried out on these pairs.  Rounding, overflow and NaN of IEEE      *)
(* doubles are outside the model: the concatenated batch has at least one  *)
(* row and tensors hold finite values.                                     *)
(***************************************************************************)
EXTENDS Integers, Sequences, FiniteSets, TLC

(* ------------------------------ bounds --------------------------------- *)
\* largest configured `steps` of a scheduler
MaxSteps == 3
\* number of step() calls explored on one scheduler
MaxCalls == 5
\* largest number of rows of the concatenated activation batch
MaxRows == 3

\* widths (vocabulary sizes) of the activation tensors explored
Dims == {1, 2}
\* entries of the activation tensors explored
Vals == {-1, 0, 1}
\* thresholds and clamp values explored
Thresholds == {0, 1}
MaxLosses == {-1, 1}

(* --------------------------- exact numbers ----------------------------- *)
RECURSIVE GCD(_, _)
GCD(a, b) == IF b = 0 THEN a ELSE GCD(b, a % b)

IntAbs(x) == IF x < 0 THEN -x ELSE x

\* n/d in lowest terms with a positive denominator, d # 0
Rat(n, d) ==
    LET g == GCD(IntAbs(n), IntAbs(d))
        s == IF d < 0 THEN -1 ELSE 1
    IN  <<(s * n) \div g, (s * d) \div g>>

\* the arithmetic keeps denominators positive; Norm gives the one pair that
\* stands for the value
Norm(x) == Rat(x[1], x[2])
RatInt(n) == <<n, 1>>
RatMul(x, y) == <<x[1] * y[1], x[2] * y[2]>>
RatDiv(x, y) ==
    IF y[1] < 0 THEN <<-(x[1] * y[2]), -(x[2] * y[1])>>
    ELSE <<x[1] * y[2], x[2] * y[1]>>
RatAdd(x, y) == <<x[1] * y[2] + y[1] * x[2], x[2] * y[2]>>
RatSub(x, y) == <<x[1] * y[2] - y[1] * x[2], x[2] * y[2]>>
RatSq(x) == RatMul(x, x)
RatAbs(x) == <<IntAbs(x[1]), x[2]>>
RatLeq(x, y) == x[1] * y[2] <= y[1] * x[2]
RatLt(x, y) == x[1] * y[2] < y[1] * x[2]

\* target weights explored: negative, zero, fractional, integral
Weights == {Rat(-1, 1), Rat(0, 1), Rat(1, 2), Rat(3, 1)}

(* ------------------------------- state --------------------------------- *)
VARIABLES
    _weight,    \* FlopsScheduler._weight: the target weight
    weight,     \* FlopsScheduler.weight: the current weight
    steps,      \* FlopsScheduler.steps: total ramp steps
    _step,      \* FlopsScheduler._step: elapsed step count
    got,        \* <<v>> when the last get() returned v, <<>> before any get()
    calls,      \* number of step() calls made so far
    op,         \* the operation that produced the state
    anchor_activations,     \* arguments of Flops.__call__
    positive_activations,
    negative_activations,
    threshold,
    max_loss,
    loss        \* <<v>> when Flops.__call__ returned v, <<>> before the call

sched == <<_weight, weight, steps, _step>>
inputs == <<anchor_activations, positive_activations, negative_activations,
            threshold, max_loss>>
vars == <<_weight, weight, steps, _step, got, calls, op,
          anchor_activations, positive_activations, negative_activations,
          threshold, max_loss, loss>>

(* --------------------------- FlopsScheduler ---------------------------- *)
\* the current weight starts at the target
SchedulerInit_StartsAtTarget(w, n) ==
    /\ _weight = w
    /\ weight = w
    /\ steps = n
    /\ _step = 0

\* __init__(weight = w, steps = n)
SchedulerInit(w, n) ==
    /\ _weight = w
    /\ weight = RatInt(0)
    /\ steps = n
    /\ _step = 0

\* swapped quotient: steps / _step
SchedWeight_Swapped(w, k, n) ==
    Norm(RatMul(w, RatSq(RatDiv(RatInt(n), RatInt(k)))))

\* self._weight * (self._step / self.steps) ** 2
SchedWeight(w, k, n) ==
    Norm(RatMul(w, RatSq(RatDiv(RatInt(k), RatInt(n)))))

\* the weight is computed before the counter is incremented
SchedStep_StaleCount ==
    IF _step >= steps
    THEN UNCHANGED <<_step, weight>>
    ELSE /\ weight' = SchedWeight(_weight, _step, steps)
         /\ _step' = _step + 1

\* the ramp restarts once it is complete
SchedStep_Restart ==
    IF _step >= steps
    THEN /\ _step' = 0
         /\ weight' = weight
    ELSE /\ _step' = _step + 1
         /\ weight' = SchedWeight(_weight, _step', steps)

\* the fields step() assigns
SchedStep ==
    IF _step >= steps
    THEN UNCHANGED <<_step, weight>>
    ELSE /\ _step' = _step + 1
         /\ weight' = SchedWeight(_weight, _step', steps)

\* get() that also advances the schedule
SchedGet_Advances ==
    /\ got' = <<weight>>
    /\ _step' = _step + 1
    /\ UNCHANGED <<_weight, weight, steps>>

\* get(): return self.weight
SchedGet ==
    /\ got' = <<weight>>
    /\ UNCHANGED <<_weight, weight, steps, _step>>

Step ==
    /\ calls < MaxCalls
    /\ SchedStep
    /\ calls' = calls + 1
    /\ op' = "step"
    /\ UNCHANGED <<_weight, steps, got, inputs, loss>>

Get ==
    /\ SchedGet
    /\ op' = "get"
    /\ UNCHANGED <<calls, inputs, loss>>

(* ------------------------------- Flops --------------------------------- *)
\* the tensors of shape (rows, width) with entries in Vals
Tensors(rows, width) == [1..rows -> [1..width -> Vals]]

\* concatenation that takes the anchor batch twice
Cat_AnchorTwice(a, p, n) == a \o a \o p \o n

\* torch.cat([...], dim=0)
Cat(a, p, n) == a \o p \o n

\* torch.abs on a tensor
TensorAbs(A) == [i \in DOMAIN A |-> [d \in DOMAIN A[i] |-> IntAbs(A[i][d])]]

RECURSIVE ColumnSum(_, _, _)
\* sum of column d over the first i rows
ColumnSum(A, d, i) == IF i = 0 THEN 0 ELSE ColumnSum(A, d, i - 1) + A[i][d]

\* torch.mean(A, dim=0): one mean per column, over all rows of A
MeanDim0(A) ==
    [d \in DOMAIN A[1] |-> RatDiv(RatInt(ColumnSum(A, d, Len(A))), RatInt(Len(A)))]

\* v ** 2, elementwise
VecSq(v) == [d \in DOMAIN v |-> RatSq(v[d])]

RECURSIVE VecSumTo(_, _)
VecSumTo(v, d) == IF d = 0 THEN RatInt(0) ELSE RatAdd(VecSumTo(v, d - 1), v[d])

\* torch.sum(v, dim=0)
VecSum(v) == VecSumTo(v, Len(v))

RatMin(x, y) == IF RatLeq(x, y) THEN x ELSE y
RatMax(x, y) == IF RatLeq(x, y) THEN y ELSE x

\* clip that applies the lower limit only
Clip_NoUpper(x, lo, hi) == RatMax(x, lo)

\* torch.clip(x, min=lo, max=hi): min(max(x, lo), hi)
Clip(x, lo, hi) == RatMin(RatMax(x, lo), hi)

\* the mean of a batch, 0 in every column for a batch without rows
BatchMean(A, width) ==
    IF Len(A) = 0 THEN [d \in 1..width |-> RatInt(0)] ELSE MeanDim0(A)

\* the loss over the mean of the three per-batch means
Flops_MeanOfMeans(a, p, n, t, m) ==
    LET width == Len(Cat(a, p, n)[1])
        ma == BatchMean(TensorAbs(a), width)
        mp == BatchMean(TensorAbs(p), width)
        mn == BatchMean(TensorAbs(n), width)
        mean == [d \in 1..width |->
                    RatDiv(RatAdd(RatAdd(ma[d], mp[d]), mn[d]), RatInt(3))]
    IN  Norm(Clip(RatAbs(RatSub(RatInt(t), VecSum(VecSq(mean)))),
                  RatInt(0), RatInt(m)))

\* Flops.__call__(a, p, n, threshold = t, max_loss = m)
Flops(a, p, n, t, m) ==
    LET activations == Cat(a, p, n)
        flops == VecSum(VecSq(MeanDim0(TensorAbs(activations))))
    IN  Norm(Clip(RatAbs(RatSub(RatInt(t), flops)), RatInt(0), RatInt(m)))

Call ==
    /\ loss' = <<Flops(anchor_activations, positive_activations,
                       negative_activations, threshold, max_loss)>>
    /\ op' = "call"
    /\ UNCHANGED <<sched, got, calls, inputs>>

(* --------------------------- specifications ---------------------------- *)
\* the inputs of a call that is never made
NoCall ==
    /\ anchor_activations = <<<<0>>>>
    /\ positive_activations = <<<<0>>>>
    /\ negative_activations = <<<<0>>>>
    /\ threshold = 0
    /\ max_loss = 0
    /\ loss = <<>>

\* a scheduler under construction, any target weight and any total
SchedInit ==
    /\ \E w \in Weights, n \in -1..MaxSteps : SchedulerInit(w, n)
    /\ got = <<>>
    /\ calls = 0
    /\ op = "init"
    /\ NoCall

SchedNext == Step \/ Get

\* the scheduler driven by one training loop
SchedSpec == SchedInit /\ [][SchedNext]_vars

\* the batch sizes: a batch may have no row, the concatenation has 1..MaxRows
Shapes ==
    {s \in (0..MaxRows) \X (0..MaxRows) \X (0..MaxRows) :
        s[1] + s[2] + s[3] \in 1..MaxRows}

LossInit ==
    /\ \E s \in Shapes, width \in Dims :
          /\ anchor_activations \in Tensors(s[1], width)
          /\ positive_activations \in Tensors(s[2], width)
          /\ negative_activations \in Tensors(s[3], width)
    /\ threshold \in Thresholds
    /\ max_loss \in MaxLosses
    /\ loss = <<>>
    /\ SchedulerInit(Rat(1, 2), 2)
    /\ got = <<>>
    /\ calls = 0
    /\ op = "init"

LossNext == Call

\* the loss applied to every input of the bounded sets
LossSpec == LossInit /\ [][LossNext]_vars

(* ------------------------ FlopsScheduler claims ------------------------ *)
\* w * (k/n)^2 in closed form
RampValue(w, k, n) == Rat(w[1] * k * k, w[2] * n * n)

\* successive get() results do not decrease
GetMonotone == (got # <<>> /\ got' # <<>>) => RatLeq(got[1], got'[1])

\* a get() made once the ramp is complete fixes every later get()
GetConstantAtEnd == (_step >= steps /\ got = <<weight>>) => got' = got

\* C1 as stated: for any target weight and any total, the weight and the
\* values get() returns never decrease, and are constant once the elapsed
\* count has reached `steps`.
C1_Original ==
    [][/\ RatLeq(weight, weight')
       /\ GetMonotone
       /\ (_step >= steps => weight' = weight)
       /\ GetConstantAtEnd]_vars

\* C1 amended: the same, for a target weight that is not negative.
C1_Monotone ==
    [][RatLeq(RatInt(0), _weight) =>
          /\ RatLeq(weight, weight')
          /\ GetMonotone
          /\ (_step >= steps => weight' = weight)
          /\ GetConstantAtEnd]_vars

C1_Witness ==
    /\ op = "get"
    /\ RatLt(RatInt(0), _weight)
    /\ steps >= 2
    /\ _step = steps
    /\ calls > steps
    /\ got = <<_weight>>

\* C2 as stated: once step() has been called at least `steps` times and the
\* elapsed count has reached `steps`, get() returns the target weight, for
\* every configured `steps`.
C2_Original ==
    (op = "get" /\ calls >= steps /\ _step >= steps) => got = <<_weight>>

\* C2 amended: the same, for every configured `steps` of at least 1.
C2_Target ==
    (steps >= 1 /\ op = "get" /\ calls >= steps /\ _step >= steps)
        => got = <<_weight>>

C2_Witness ==
    /\ steps = 1
    /\ op = "get"
    /\ calls = 1
    /\ _step = 1
    /\ _weight = Rat(1, 2)
    /\ got = <<_weight>>

\* C6: the weight of a fresh scheduler is 0 and get() reports it before any
\* step(); get() returns the current weight and changes no field.
C6_GetPure ==
    /\ [](op = "init" => weight = RatInt(0))
    /\ []((op = "get" /\ calls = 0) => got = <<RatInt(0)>>)
    /\ [][op' = "get" => (got' = <<weight>> /\ UNCHANGED sched)]_vars

C6_Witness ==
    /\ op = "get"
    /\ calls = 2
    /\ _step = 2
    /\ steps = 3
    /\ _weight = Rat(3, 1)
    /\ got = <<Rat(4, 3)>>

\* C7: a step() below the total increments the elapsed count by 1 and sets
\* the weight to target * (elapsed/total)^2 of the incremented count; after
\* k <= total calls the weight is target * (k/total)^2.
C7_Ramp ==
    /\ [][(op' = "step" /\ _step < steps) =>
             /\ _step' = _step + 1
             /\ weight' = RampValue(_weight, _step + 1, steps)]_vars
    /\ []((steps >= 1 /\ calls <= steps) =>
             (_step = calls /\ weight = RampValue(_weight, calls, steps)))

C7_Witness ==
    /\ op = "step"
    /\ calls = 2
    /\ steps = 3
    /\ _weight = Rat(1, 2)
    /\ weight = Rat(2, 9)

\* C8: a step() with the elapsed count at or above the total changes no
\* field, so the weight keeps its last computed value.
C8_Frozen ==
    [][(op' = "step" /\ _step >= steps) => UNCHANGED sched]_vars

C8_Witness ==
    /\ op = "step"
    /\ steps = 2
    /\ _step = 2
    /\ calls = 4
    /\ _weight = Rat(3, 1)
    /\ weight = _weight

\* C10: with total >= 0 the elapsed count stays within 0..total, the target
\* weight and the total keep their constructor values, and with total >= 1
\* the weight is target * (elapsed/total)^2.
C10_Invariant ==
    /\ [](steps >= 0 =>
             /\ 0 <= _step
             /\ _step <= steps
             /\ (steps >= 1 => weight = RampValue(_weight, _step, steps)))
    /\ [][UNCHANGED <<_weight, steps>>]_vars

C10_Witness ==
    /\ steps = 2
    /\ _step = 1
    /\ calls = 1
    /\ _weight = Rat(-1, 1)
    /\ weight = Rat(-1, 4)

(* ----------------------------- Flops claims ---------------------------- *)
\* C3 as stated: for every input and every (threshold, max_loss) the value
\* returned lies in [0, max_loss].
C3_Original ==
    loss # <<>> =>
        (RatLeq(RatInt(0), loss[1]) /\ RatLeq(loss[1], RatInt(max_loss)))

\* C3 amended: the same, for every max_loss that is not negative.
C3_Range ==
    (loss # <<>> /\ max_loss >= 0) =>
        (RatLeq(RatInt(0), loss[1]) /\ RatLeq(loss[1], RatInt(max_loss)))

C3_Witness ==
    /\ anchor_activations = <<<<1, -1>>>>
    /\ positive_activations = <<<<-1, -1>>>>
    /\ negative_activations = <<<<1, 1>>>>
    /\ threshold = 0
    /\ max_loss = 1
    /\ loss = <<RatInt(1)>>

\* the entries a single entry can be raised to
Raised(A, i, d) == {v \in Vals : IntAbs(v) > IntAbs(A[i][d])}

\* C4: raising the absolute value of one entry of the anchor, positive or
\* negative batch, all else unchanged, never lowers the loss.
C4_Original ==
    loss # <<>> =>
        /\ \A i \in DOMAIN anchor_activations :
             \A d \in DOMAIN anchor_activations[i] :
               \A v \in Raised(anchor_activations, i, d) :
                 RatLeq(loss[1],
                        Flops([anchor_activations EXCEPT ![i][d] = v],
                              positive_activations, negative_activations,
                              threshold, max_loss))
        /\ \A i \in DOMAIN positive_activations :
             \A d \in DOMAIN positive_activations[i] :
               \A v \in Raised(positive_activations, i, d) :
                 RatLeq(loss[1],
                        Flops(anchor_activations,
                              [positive_activations EXCEPT ![i][d] = v],
                              negative_activations, threshold, max_loss))
        /\ \A i \in DOMAIN negative_activations :
             \A d \in DOMAIN negative_activations[i] :
               \A v \in Raised(negative_activations, i, d) :
                 RatLeq(loss[1],
                        Flops(anchor_activations, positive_activations,
                              [negative_activations EXCEPT ![i][d] = v],
                              threshold, max_loss))

\* C5: the loss is the same under every permutation of the three batches,
\* of equal batch size or not.
C5_Permutation ==
    loss # <<>> =>
        LET a == anchor_activations
            p == positive_activations
            n == negative_activations
        IN  /\ loss[1] = Flops(a, n, p, threshold, max_loss)
            /\ loss[1] = Flops(p, a, n, threshold, max_loss)
            /\ loss[1] = Flops(p, n, a, threshold, max_loss)
            /\ loss[1] = Flops(n, a, p, threshold, max_loss)
            /\ loss[1] = Flops(n, p, a, threshold, max_loss)

C5_Witness ==
    /\ anchor_activations = <<<<1, 0>>>>
    /\ positive_activations = <<<<0, 0>>>>
    /\ negative_activations = <<<<-1, 1>>>>
    /\ threshold = 1
    /\ max_loss = 1
    /\ loss = <<Rat(4, 9)>>

RECURSIVE AbsColumnTotal(_, _, _)
\* |A[1][d]| + ... + |A[i][d]|
AbsColumnTotal(A, d, i) ==
    IF i = 0 THEN 0 ELSE IntAbs(A[i][d]) + AbsColumnTotal(A, d, i - 1)

RECURSIVE SquaredTotals(_, _)
\* the sum over the columns 1..d of the squared column totals
SquaredTotals(A, d) ==
    IF d = 0 THEN 0
    ELSE SquaredTotals(A, d - 1)
            + AbsColumnTotal(A, d, Len(A)) * AbsColumnTotal(A, d, Len(A))

\* clamp(x, lo, hi)
Clamp(x, lo, hi) == IF RatLt(hi, x) THEN hi ELSE IF RatLt(x, lo) THEN lo ELSE x

\* clamp(|threshold - sum_d ((1/N) * sum_i |A[i][d]|)^2|, 0, max_loss)
Reference ==
    LET A == anchor_activations \o positive_activations \o negative_activations
        N == Len(A)
        x == Rat(IntAbs(threshold * N * N - SquaredTotals(A, Len(A[1]))), N * N)
    IN  Clamp(x, RatInt(0), RatInt(max_loss))

\* C9: the value returned is the reference computation over all N rows of
\* the concatenation jointly, and the call changes neither its inputs nor
\* the scheduler.
C9_Reference ==
    /\ [](loss # <<>> => loss = <<Reference>>)
    /\ [][op' = "call" => UNCHANGED <<inputs, sched, got, calls>>]_vars

C9_Witness ==
    /\ anchor_activations = <<<<1>>, <<-1>>>>
    /\ positive_activations = <<<<0>>>>
    /\ negative_activations = <<>>
    /\ threshold = 1
    /\ max_loss = 1
    /\ loss = <<Rat(5, 9)>>
    /\ loss # <<Flops_MeanOfMeans(anchor_activations, positive_activations,
                                  negative_activations, threshold, max_loss)>>

====
